---- MODULE Spec2Model ----
(***************************************************************************)
(* Onboarding state of kernel-bot: the UserState record with its step      *)
(* machine (models/UserState.js) and the UserStateManager that keeps the   *)
(* records in a Map and in one JSON file (managers/UserStateManager.js).   *)
(*                                                                         *)
(* Encoding of JavaScript values:                                          *)
(*   - a string identifier is a sequence of one-character strings, so      *)
(*     that the template literal of getUserKey is a concatenation;         *)
(*   - null is the empty sequence Null; a non-null value of a nullable     *)
(*     field is a one-element sequence (an ISO timestamp is <<ms>>);       *)
(*   - an object is a function from property names to values, so a patch   *)
(*     names exactly the properties of its DOMAIN;                         *)
(*   - a Map (and a JSON object) is a sequence of [key, value] entries in  *)
(*     insertion order.                                                    *)
(***************************************************************************)
EXTENDS Integers, Sequences, FiniteSets, TLC

VARIABLES
    userStates,   \* this.userStates: the Map, a sequence of entries
    initialized,  \* this.initialized
    file,         \* userStates.json: NoFile, or the JSON object it holds
    now,          \* the wall clock (ms) that new Date() reads
    ret,          \* the last call of the manager and the value it resolved to
    writes,       \* number of mutating calls made so far
    firstInserted, \* history: the keys ever set in the Map, by first insertion
    lastInserted, \* history: the keys now in the Map, by latest insertion
    state,        \* a free-standing UserState object (models/UserState.js)
    steps,        \* history: the completeStep calls on state, each with the record it found
    ids,          \* two (userId, guildId) pairs handed to getUserKey
    keys,         \* the keys getUserKey returned for ids
    config,       \* a free-standing OnboardingConfig object (models/OnboardingConfig.js)
    jsonData,     \* the data object handed to fromJSON
    out,          \* what the last toJSON() or validate() call returned
    calls,        \* the calls of the manager made so far, each with the await it is at
    refs,         \* the identity of the object the Map holds at each position
    allocated,    \* number of UserState objects constructed so far
    log,          \* history: the calls in the order of their synchronous mutation
    base          \* history: the Map the first completed load left

mgrVars == <<userStates, initialized, file, now, ret, writes, firstInserted, lastInserted>>
recVars == <<state, steps>>
keyVars == <<ids, keys>>
cfgVars == <<config, jsonData, out>>
asyncVars == <<calls, refs, allocated, log, base>>
vars ==
    <<userStates, initialized, file, now, ret, writes, firstInserted, lastInserted,
      state, steps, ids, keys, config, jsonData, out, calls, refs, allocated, log, base>>

---------------------------------------------------------------------------
(* Bounds of the model *)

\* mutating calls in one behaviour of the manager
MaxWrites == 2
\* the clock is observed up to this many ms past the reminder threshold
MaxDrift == 1
\* completeStep calls applied to the free-standing record
MaxSteps == 3
\* length of the identifier strings handed to getUserKey
MaxIdLen == 2

---------------------------------------------------------------------------
(* JavaScript values *)

Null == <<>>

Undefined == <<"undefined">>

\* Date.prototype.toISOString: the ISO string of the instant ms
ToISOString(ms) == <<ms>>

\* new Date(value) read as a number of ms: new Date(null) is the epoch
DateOf(value) == IF value = Null THEN 0 ELSE value[1]

\* obj.name, undefined when obj has no such property
Prop(obj, name) == IF name \in DOMAIN obj THEN obj[name] ELSE Undefined

\* Object.assign(target, source): every property of source is written
ObjectAssign(target, source) ==
    [f \in (DOMAIN target) \cup (DOMAIN source) |->
        IF f \in DOMAIN source THEN source[f] ELSE target[f]]

---------------------------------------------------------------------------
(* models/UserState.js *)

CanonicalFields ==
    {"userId", "guildId", "onboardingStep", "rulesAcknowledged",
     "rulesAcknowledgedAt", "githubConnected", "githubUsername",
     "tutorialCompleted", "onboardingStartedAt", "onboardingCompletedAt",
     "remindersSent"}

\* the five steps the constructor's comment enumerates, in order
StepOrder == <<"welcome", "rules", "github", "tutorial", "complete">>

OnboardingSteps == {StepOrder[i] : i \in 1..Len(StepOrder)}

\* new UserState(userId, guildId) at clock value t
NewUserState(userId, guildId, t) ==
    [userId |-> userId,
     guildId |-> guildId,
     onboardingStep |-> "welcome",
     rulesAcknowledged |-> FALSE,
     rulesAcknowledgedAt |-> Null,
     githubConnected |-> FALSE,
     githubUsername |-> Null,
     tutorialCompleted |-> FALSE,
     onboardingStartedAt |-> ToISOString(t),
     onboardingCompletedAt |-> Null,
     remindersSent |-> 0]

\* a fromJSON that constructs the record and forgets the Object.assign
FromJSON_ConstructorOnly(data, t) ==
    NewUserState(Prop(data, "userId"), Prop(data, "guildId"), t)

\* UserState.fromJSON(data) at clock value t
FromJSON(data, t) ==
    ObjectAssign(NewUserState(Prop(data, "userId"), Prop(data, "guildId"), t), data)

\* a toJSON() that leaves remindersSent out of the object it returns
ToJSON_NoCounter(s) == [f \in CanonicalFields \ {"remindersSent"} |-> s[f]]

\* toJSON(): the eleven canonical properties
ToJSON(s) == [f \in CanonicalFields |-> s[f]]

\* a completeStep whose "github" case lacks its break and falls into "tutorial"
CompleteStep_FallThrough(s, step, t) ==
    CASE step = "rules" ->
            [s EXCEPT !.rulesAcknowledged = TRUE,
                      !.rulesAcknowledgedAt = ToISOString(t),
                      !.onboardingStep = "github"]
      [] step \in {"github", "tutorial"} ->
            [s EXCEPT !.tutorialCompleted = TRUE,
                      !.onboardingStep = "complete",
                      !.onboardingCompletedAt = ToISOString(t)]
      [] OTHER -> s

\* a completeStep that acts only on a record that is at the step being completed
CompleteStep_Guarded(s, step, t) ==
    CASE step = "rules" /\ s.onboardingStep = "rules" ->
            [s EXCEPT !.rulesAcknowledged = TRUE,
                      !.rulesAcknowledgedAt = ToISOString(t),
                      !.onboardingStep = "github"]
      [] step = "github" /\ s.onboardingStep = "github" ->
            [s EXCEPT !.onboardingStep = "tutorial"]
      [] step = "tutorial" /\ s.onboardingStep = "tutorial" ->
            [s EXCEPT !.tutorialCompleted = TRUE,
                      !.onboardingStep = "complete",
                      !.onboardingCompletedAt = ToISOString(t)]
      [] OTHER -> s

\* a completeStep with one more case: "welcome" advances to "rules"
CompleteStep_WelcomeCase(s, step, t) ==
    CASE step = "welcome" ->
            [s EXCEPT !.onboardingStep = "rules"]
      [] step = "rules" ->
            [s EXCEPT !.rulesAcknowledged = TRUE,
                      !.rulesAcknowledgedAt = ToISOString(t),
                      !.onboardingStep = "github"]
      [] step = "github" ->
            [s EXCEPT !.onboardingStep = "tutorial"]
      [] step = "tutorial" ->
            [s EXCEPT !.tutorialCompleted = TRUE,
                      !.onboardingStep = "complete",
                      !.onboardingCompletedAt = ToISOString(t)]
      [] OTHER -> s

\* a completeStep whose "rules" case sets the flag and no timestamp
CompleteStep_NoTimestamp(s, step, t) ==
    CASE step = "rules" ->
            [s EXCEPT !.rulesAcknowledged = TRUE,
                      !.onboardingStep = "github"]
      [] step = "github" ->
            [s EXCEPT !.onboardingStep = "tutorial"]
      [] step = "tutorial" ->
            [s EXCEPT !.tutorialCompleted = TRUE,
                      !.onboardingStep = "complete",
                      !.onboardingCompletedAt = ToISOString(t)]
      [] OTHER -> s

\* completeStep(step) at clock value t
CompleteStep(s, step, t) ==
    CASE step = "rules" ->
            [s EXCEPT !.rulesAcknowledged = TRUE,
                      !.rulesAcknowledgedAt = ToISOString(t),
                      !.onboardingStep = "github"]
      [] step = "github" ->
            [s EXCEPT !.onboardingStep = "tutorial"]
      [] step = "tutorial" ->
            [s EXCEPT !.tutorialCompleted = TRUE,
                      !.onboardingStep = "complete",
                      !.onboardingCompletedAt = ToISOString(t)]
      [] OTHER -> s

\* isComplete()
IsComplete(s) == s.onboardingStep = "complete"

---------------------------------------------------------------------------
(* The Map of the manager: entries in insertion order *)

MapKeys(m) == {m[i].key : i \in 1..Len(m)}

MapHas(m, k) == k \in MapKeys(m)

MapIndex(m, k) == CHOOSE i \in 1..Len(m) : m[i].key = k

\* Map.prototype.get: undefined for an absent key
MapGet(m, k) == IF MapHas(m, k) THEN m[MapIndex(m, k)].value ELSE Undefined

\* Map.prototype.set: a present key keeps its place, a new key goes last
MapSet(m, k, v) ==
    IF MapHas(m, k)
    THEN [m EXCEPT ![MapIndex(m, k)].value = v]
    ELSE Append(m, [key |-> k, value |-> v])

\* Map.prototype.delete
MapDelete(m, k) == SelectSeq(m, LAMBDA e : e.key # k)

---------------------------------------------------------------------------
(* managers/UserStateManager.js: the parts of the handlers *)

\* readFile fails with ENOENT: there is no file
NoFile == [exists |-> FALSE, entries |-> <<>>]

\* the file holding the JSON object with these entries
JsonFile(entries) == [exists |-> TRUE, entries |-> entries]

\* getUserKey(userId, guildId): `${guildId}-${userId}`
GetUserKey(userId, guildId) == guildId \o <<"-">> \o userId

RECURSIVE LoadEntries(_, _, _)
\* the loop of loadUserStates over Object.entries(statesData)
LoadEntries(m, entries, t) ==
    IF entries = <<>>
    THEN m
    ELSE LoadEntries(MapSet(m, Head(entries).key, FromJSON(Head(entries).value, t)),
                     Tail(entries), t)

\* loadUserStates(): the Map after reading file f at clock value t
LoadUserStates(f, t) == IF f.exists THEN LoadEntries(<<>>, f.entries, t) ELSE <<>>

\* saveUserStates(): the JSON object written for Map m
SaveUserStates(m) ==
    JsonFile([i \in 1..Len(m) |-> [key |-> m[i].key, value |-> ToJSON(m[i].value)]])

\* an initialize() without its "if (this.initialized) return"
Initialize_NoFlag == LoadUserStates(file, now)

\* initialize(): the Map it leaves
Initialize == IF initialized THEN userStates ELSE LoadUserStates(file, now)

\* a get-or-create that forgets the "if (!state)" and always starts a new record
GetOrCreate_AlwaysNew(m, userId, guildId, t) ==
    MapSet(m, GetUserKey(userId, guildId), NewUserState(userId, guildId, t))

\* the get-or-create of updateUserState and markStepComplete
GetOrCreate(m, userId, guildId, t) ==
    IF MapHas(m, GetUserKey(userId, guildId))
    THEN m
    ELSE MapSet(m, GetUserKey(userId, guildId), NewUserState(userId, guildId, t))

\* a loop that puts each match in front (unshift for push)
GuildStates_Unshift(m, guildId) ==
    LET hits == SelectSeq(m, LAMBDA e : e.value.guildId = guildId)
    IN [i \in 1..Len(hits) |-> hits[Len(hits) + 1 - i].value]

\* the loop of getGuildUserStates
GuildStates(m, guildId) ==
    LET hits == SelectSeq(m, LAMBDA e : e.value.guildId = guildId)
    IN [i \in 1..Len(hits) |-> hits[i].value]

\* 24 hours in milliseconds
ReminderThreshold == 24 * 60 * 60 * 1000

\* the default of the maxReminders parameter
DefaultMaxReminders == 3

\* a condition that still admits a record whose remindersSent has reached the cap
NeedsReminder_AtCap(s, guildId, maxReminders, t) ==
    /\ s.guildId = guildId
    /\ ~s.rulesAcknowledged
    /\ s.remindersSent <= maxReminders
    /\ t - DateOf(s.onboardingStartedAt) >= ReminderThreshold

\* the condition of getUsersNeedingReminders for one record
NeedsReminder(s, guildId, maxReminders, t) ==
    /\ s.guildId = guildId
    /\ ~s.rulesAcknowledged
    /\ s.remindersSent < maxReminders
    /\ t - DateOf(s.onboardingStartedAt) >= ReminderThreshold

\* the loop of getUsersNeedingReminders
UsersNeedingReminders(m, guildId, maxReminders, t) ==
    LET hits == SelectSeq(m, LAMBDA e : NeedsReminder(e.value, guildId, maxReminders, t))
    IN [i \in 1..Len(hits) |-> hits[i].value]

\* a call of the manager as the caller sees it
Call(op, userId, guildId, arg, value) ==
    [op |-> op, userId |-> userId, guildId |-> guildId, arg |-> arg, value |-> value]

NoCall == Call("none", Null, Null, Null, Null)

---------------------------------------------------------------------------
(* History of the insertions into the Map, kept beside the handlers *)

RECURSIVE AppendNew(_, _)
\* h followed by the keys of ks that h does not hold yet, in the order of ks
AppendNew(h, ks) ==
    IF ks = <<>>
    THEN h
    ELSE AppendNew(IF \E i \in 1..Len(h) : h[i] = Head(ks) THEN h ELSE Append(h, Head(ks)),
                   Tail(ks))

\* the keys of the JSON object of file f, in the order Object.entries lists them
FileKeys(f) == [i \in 1..Len(f.entries) |-> f.entries[i].key]

\* a first initialize() clears the Map and sets the keys of the file
LoadedFirst == IF initialized THEN firstInserted ELSE AppendNew(firstInserted, FileKeys(file))

LoadedLast == IF initialized THEN lastInserted ELSE AppendNew(<<>>, FileKeys(file))

\* a call that only reads
TrackRead ==
    /\ firstInserted' = LoadedFirst
    /\ lastInserted' = LoadedLast

\* a call that sets key k when the Map does not hold it
TrackSet(k) ==
    /\ firstInserted' = AppendNew(LoadedFirst, <<k>>)
    /\ lastInserted' = AppendNew(LoadedLast, <<k>>)

\* a call that deletes key k
TrackDelete(k) ==
    /\ firstInserted' = LoadedFirst
    /\ lastInserted' = SelectSeq(LoadedLast, LAMBDA x : x # k)

---------------------------------------------------------------------------
(* managers/UserStateManager.js: the handlers, each one whole call *)

\* updateUserState(userId, guildId, updates)
UpdateUserState(userId, guildId, updates) ==
    LET key == GetUserKey(userId, guildId)
        m == GetOrCreate(Initialize, userId, guildId, now)
        s == ObjectAssign(MapGet(m, key), updates)
    IN /\ writes < MaxWrites
       /\ initialized' = TRUE
       /\ userStates' = MapSet(m, key, s)
       /\ file' = SaveUserStates(userStates')
       /\ ret' = Call("updateUserState", userId, guildId, updates, s)
       /\ writes' = writes + 1
       /\ TrackSet(key)
       /\ UNCHANGED <<now, recVars, keyVars, cfgVars, asyncVars>>

\* setOnboardingStep(userId, guildId, step): the updateUserState call it returns
SetOnboardingStep(userId, guildId, step) ==
    UpdateUserState(userId, guildId, [onboardingStep |-> step])

\* a markStepComplete that creates the record only for a step completeStep knows
MarkStepComplete_KnownOnly(userId, guildId, step) ==
    LET key == GetUserKey(userId, guildId)
        known == step \in {"rules", "github", "tutorial"}
        m == IF known THEN GetOrCreate(Initialize, userId, guildId, now) ELSE Initialize
        s == IF MapHas(m, key) THEN CompleteStep(MapGet(m, key), step, now) ELSE Null
    IN /\ writes < MaxWrites
       /\ initialized' = TRUE
       /\ userStates' = IF MapHas(m, key) THEN MapSet(m, key, s) ELSE m
       /\ file' = SaveUserStates(userStates')
       /\ ret' = Call("markStepComplete", userId, guildId, step, s)
       /\ writes' = writes + 1
       /\ IF MapHas(m, key) THEN TrackSet(key) ELSE TrackRead
       /\ UNCHANGED <<now, recVars, keyVars, cfgVars, asyncVars>>

\* markStepComplete(userId, guildId, step)
MarkStepComplete(userId, guildId, step) ==
    LET key == GetUserKey(userId, guildId)
        m == GetOrCreate(Initialize, userId, guildId, now)
        s == CompleteStep(MapGet(m, key), step, now)
    IN /\ writes < MaxWrites
       /\ initialized' = TRUE
       /\ userStates' = MapSet(m, key, s)
       /\ file' = SaveUserStates(userStates')
       /\ ret' = Call("markStepComplete", userId, guildId, step, s)
       /\ writes' = writes + 1
       /\ TrackSet(key)
       /\ UNCHANGED <<now, recVars, keyVars, cfgVars, asyncVars>>

\* a deleteUserState that builds its key with the arguments swapped
DeleteUserState_SwappedKey(userId, guildId) ==
    /\ writes < MaxWrites
    /\ initialized' = TRUE
    /\ userStates' = MapDelete(Initialize, GetUserKey(guildId, userId))
    /\ file' = SaveUserStates(userStates')
    /\ ret' = Call("deleteUserState", userId, guildId, Null, Null)
    /\ writes' = writes + 1
    /\ TrackDelete(GetUserKey(guildId, userId))
    /\ UNCHANGED <<now, recVars, keyVars, cfgVars, asyncVars>>

\* deleteUserState(userId, guildId)
DeleteUserState(userId, guildId) ==
    /\ writes < MaxWrites
    /\ initialized' = TRUE
    /\ userStates' = MapDelete(Initialize, GetUserKey(userId, guildId))
    /\ file' = SaveUserStates(userStates')
    /\ ret' = Call("deleteUserState", userId, guildId, Null, Null)
    /\ writes' = writes + 1
    /\ TrackDelete(GetUserKey(userId, guildId))
    /\ UNCHANGED <<now, recVars, keyVars, cfgVars, asyncVars>>

\* a getUserState that creates the record it does not find
GetUserState_Creates(userId, guildId) ==
    LET key == GetUserKey(userId, guildId)
        m == GetOrCreate(Initialize, userId, guildId, now)
    IN /\ initialized' = TRUE
       /\ userStates' = m
       /\ ret' = Call("getUserState", userId, guildId, Null, MapGet(m, key))
       /\ TrackSet(key)
       /\ UNCHANGED <<file, now, writes, recVars, keyVars, cfgVars, asyncVars>>

\* getUserState(userId, guildId): a stored record is an object, hence truthy
GetUserState(userId, guildId) ==
    LET key == GetUserKey(userId, guildId)
    IN /\ initialized' = TRUE
       /\ userStates' = Initialize
       /\ ret' = Call("getUserState", userId, guildId, Null,
                      IF MapHas(Initialize, key) THEN MapGet(Initialize, key) ELSE Null)
       /\ TrackRead
       /\ UNCHANGED <<file, now, writes, recVars, keyVars, cfgVars, asyncVars>>

\* getGuildUserStates(guildId)
GetGuildUserStates(guildId) ==
    /\ initialized' = TRUE
    /\ userStates' = Initialize
    /\ ret' = Call("getGuildUserStates", Null, guildId, Null,
                   GuildStates(Initialize, guildId))
    /\ TrackRead
    /\ UNCHANGED <<file, now, writes, recVars, keyVars, cfgVars, asyncVars>>

\* getUsersNeedingReminders(guildId, maxReminders = 3): args holds what the caller
\* passes after guildId, nothing or maxReminders
GetUsersNeedingReminders(guildId, args) ==
    LET maxReminders == IF args = <<>> THEN DefaultMaxReminders ELSE args[1]
    IN /\ initialized' = TRUE
       /\ userStates' = Initialize
       /\ ret' = Call("getUsersNeedingReminders", Null, guildId, args,
                      UsersNeedingReminders(Initialize, guildId, maxReminders, now))
       /\ TrackRead
       /\ UNCHANGED <<file, now, writes, recVars, keyVars, cfgVars, asyncVars>>

\* the instants at which the clock is observed
Instants == {0} \cup ((ReminderThreshold - 1)..(ReminderThreshold + MaxDrift))

\* time passes between two calls
Tick ==
    /\ \E t \in Instants : t > now /\ now' = t
    /\ UNCHANGED <<userStates, initialized, file, ret, writes, firstInserted,
                   lastInserted, recVars, keyVars, cfgVars, asyncVars>>

---------------------------------------------------------------------------
(* The callers of the manager: the arguments they pass *)

U1 == <<"u", "1">>

U2 == <<"u", "2">>

G1 == <<"g", "1">>

G2 == <<"g", "2">>

UserIds == {U1, U2}

GuildIds == {G1, G2}

\* the (userId, guildId) pairs of the calls: two users of one guild, one of them
\* also in a second guild
Pairs == {<<U1, G1>>, <<U2, G1>>, <<U1, G2>>}

\* the updates objects of updateUserState
Patches ==
    { <<>>,
      [onboardingStep |-> "welcome"],
      [onboardingStep |-> "rules", rulesAcknowledged |-> TRUE],
      [githubConnected |-> TRUE, githubUsername |-> <<"octocat">>],
      [remindersSent |-> DefaultMaxReminders, nickname |-> <<"kit">>] }

\* the step arguments of setOnboardingStep
SetSteps == {"github", "finished"}

\* the step arguments of markStepComplete
MarkSteps == {"rules", "github", "tutorial", "finished"}

\* the updates objects of the reminder dispatcher, which counts what it sent
ReminderPatches ==
    { <<>>,
      [remindersSent |-> DefaultMaxReminders - 1],
      [remindersSent |-> DefaultMaxReminders] }

\* what the callers of getUsersNeedingReminders pass after guildId
MaxRemindersArgs == {<<>>, <<DefaultMaxReminders - 1>>}

\* the file a previous run of the bot left behind: two users of guild G1, and
\* between them one of guild G2
PriorFile ==
    LET a == MapSet(<<>>, GetUserKey(U1, G1), NewUserState(U1, G1, 0))
        b == MapSet(a, GetUserKey(U1, G2), NewUserState(U1, G2, 0))
        c == MapSet(b, GetUserKey(U2, G1), CompleteStep(NewUserState(U2, G1, 0), "rules", 0))
    IN SaveUserStates(c)

InitFiles == {NoFile, PriorFile}

---------------------------------------------------------------------------
(* The manager *)

\* new UserStateManager(), over the file of the data directory
InitManager ==
    /\ userStates = <<>>
    /\ initialized = FALSE
    /\ file \in InitFiles
    /\ now = 0
    /\ ret = NoCall
    /\ writes = 0
    /\ firstInserted = <<>>
    /\ lastInserted = <<>>

IdleRecord ==
    /\ state = Null
    /\ steps = <<>>

IdleKeys ==
    /\ ids = <<>>
    /\ keys = <<>>

IdleConfig ==
    /\ config = Null
    /\ jsonData = Null
    /\ out = Null

IdleCalls ==
    /\ calls = <<>>
    /\ refs = <<>>
    /\ allocated = 0
    /\ log = <<>>
    /\ base = <<>>

Init ==
    /\ InitManager
    /\ IdleRecord
    /\ IdleKeys
    /\ IdleConfig
    /\ IdleCalls

\* the manager under its mutating calls, getUserState and getGuildUserStates
Next ==
    \/ \E p \in Pairs, u \in Patches : UpdateUserState(p[1], p[2], u)
    \/ \E p \in Pairs, s \in SetSteps : SetOnboardingStep(p[1], p[2], s)
    \/ \E p \in Pairs, s \in MarkSteps : MarkStepComplete(p[1], p[2], s)
    \/ \E p \in Pairs : DeleteUserState(p[1], p[2])
    \/ \E p \in Pairs : GetUserState(p[1], p[2])
    \/ \E g \in GuildIds : GetGuildUserStates(g)

Spec == Init /\ [][Next]_vars

---------------------------------------------------------------------------
(* The manager as the reminder dispatcher uses it, while time passes *)

NextReminders ==
    \/ \E p \in Pairs, u \in ReminderPatches : UpdateUserState(p[1], p[2], u)
    \/ \E p \in Pairs : MarkStepComplete(p[1], p[2], "rules")
    \/ \E p \in Pairs : DeleteUserState(p[1], p[2])
    \/ \E g \in GuildIds, a \in MaxRemindersArgs : GetUsersNeedingReminders(g, a)
    \/ Tick

SpecReminders == Init /\ [][NextReminders]_vars

---------------------------------------------------------------------------
(* The manager under its three reading methods, while time passes *)

NextReads ==
    \/ \E p \in Pairs, u \in ReminderPatches : UpdateUserState(p[1], p[2], u)
    \/ \E p \in Pairs : DeleteUserState(p[1], p[2])
    \/ \E p \in Pairs : GetUserState(p[1], p[2])
    \/ \E g \in GuildIds : GetGuildUserStates(g)
    \/ \E g \in GuildIds, a \in MaxRemindersArgs : GetUsersNeedingReminders(g, a)
    \/ Tick

SpecReads == Init /\ [][NextReads]_vars

---------------------------------------------------------------------------
(* The manager under callers whose updates objects name any property *)

\* updates objects that name the properties the key is made of
IdentityPatches ==
    { [remindersSent |-> DefaultMaxReminders - 1],
      [guildId |-> G2],
      [userId |-> U2],
      [userId |-> U1, guildId |-> G1, onboardingStep |-> "github"] }

NextIdentity ==
    \/ \E p \in Pairs, u \in IdentityPatches : UpdateUserState(p[1], p[2], u)
    \/ \E p \in Pairs : MarkStepComplete(p[1], p[2], "rules")
    \/ \E p \in Pairs : DeleteUserState(p[1], p[2])
    \/ \E p \in Pairs : GetUserState(p[1], p[2])
    \/ \E g \in GuildIds : GetGuildUserStates(g)

SpecIdentity == Init /\ [][NextIdentity]_vars

---------------------------------------------------------------------------
(* The manager on an empty store, changed by markStepComplete alone *)

\* new UserStateManager() where the data directory holds no file
InitMarks ==
    /\ Init
    /\ file = NoFile

NextMarks ==
    \/ \E p \in Pairs, s \in MarkSteps : MarkStepComplete(p[1], p[2], s)
    \/ \E g \in GuildIds, a \in MaxRemindersArgs : GetUsersNeedingReminders(g, a)
    \/ Tick

SpecMarks == InitMarks /\ [][NextMarks]_vars

---------------------------------------------------------------------------
(* A UserState object on its own *)

\* the step arguments of completeStep: the five steps and an unknown string
StepArgs == OnboardingSteps \cup {"finished"}

\* JSON data of records at every step, acknowledged or not, finished or not
RecordData ==
    { [userId |-> U1,
       guildId |-> G1,
       onboardingStep |-> st,
       rulesAcknowledged |-> ra,
       rulesAcknowledgedAt |-> IF ra THEN ToISOString(0) ELSE Null,
       githubConnected |-> FALSE,
       githubUsername |-> Null,
       tutorialCompleted |-> tc,
       onboardingStartedAt |-> ToISOString(0),
       onboardingCompletedAt |-> IF tc THEN ToISOString(0) ELSE Null,
       remindersSent |-> 0] : st \in OnboardingSteps, ra \in BOOLEAN, tc \in BOOLEAN }

\* a UserState made by the constructor or by fromJSON
InitRecord ==
    /\ InitManager
    /\ file = NoFile
    /\ IdleKeys
    /\ IdleConfig
    /\ IdleCalls
    /\ state \in {NewUserState(U1, G1, now)} \cup {FromJSON(d, now) : d \in RecordData}
    /\ steps = <<>>

\* state.completeStep(step)
CallCompleteStep(step) ==
    /\ Len(steps) < MaxSteps
    /\ state' = CompleteStep(state, step, now)
    /\ steps' = Append(steps, [arg |-> step, before |-> state])
    /\ UNCHANGED <<mgrVars, keyVars, cfgVars, asyncVars>>

NextRecord ==
    \/ \E s \in StepArgs : CallCompleteStep(s)
    \/ Tick

SpecRecord == InitRecord /\ [][NextRecord]_vars

---------------------------------------------------------------------------
(* getUserKey on its own *)

\* the characters of the identifier strings: a letter and the separator
IdChars == {"a", "-"}

\* the non-empty identifier strings of at most MaxIdLen characters
IdStrings == UNION {[1..n -> IdChars] : n \in 1..MaxIdLen}

\* two (userId, guildId) pairs, not yet handed to getUserKey
InitKey ==
    /\ InitManager
    /\ file = NoFile
    /\ IdleRecord
    /\ IdleConfig
    /\ IdleCalls
    /\ ids \in (IdStrings \X IdStrings) \X (IdStrings \X IdStrings)
    /\ keys = <<>>

\* getUserKey is called for each of the two pairs
CallGetUserKey ==
    /\ keys = <<>>
    /\ keys' = <<GetUserKey(ids[1][1], ids[1][2]), GetUserKey(ids[2][1], ids[2][2])>>
    /\ UNCHANGED <<ids, mgrVars, recVars, cfgVars, asyncVars>>

NextKey == CallGetUserKey

SpecKey == InitKey /\ [][NextKey]_vars

---------------------------------------------------------------------------
(* models/OnboardingConfig.js *)

ConfigFields ==
    {"guildId", "welcomeChannelId", "rulesChannelId", "welcomeMessage", "rulesContent",
     "githubIntegrationEnabled", "tutorialEnabled", "reminderIntervalHours", "maxReminders"}

\* a text is the sequence of its characters; the empty text and null are both the
\* empty sequence, and both are falsy
Falsy(text) == text = <<>>

\* the characters String.prototype.trim removes
WhiteSpace == {" ", "\t", "\n"}

RECURSIVE TrimStart(_)
TrimStart(text) ==
    IF text # <<>> /\ Head(text) \in WhiteSpace THEN TrimStart(Tail(text)) ELSE text

RECURSIVE TrimEnd(_)
TrimEnd(text) ==
    IF text # <<>> /\ text[Len(text)] \in WhiteSpace
    THEN TrimEnd(SubSeq(text, 1, Len(text) - 1))
    ELSE text

\* String.prototype.trim
Trim(text) == TrimEnd(TrimStart(text))

\* getDefaultWelcomeMessage(): the template, cut after its first word
DefaultWelcomeMessage == <<"¡", "B", "i", "e", "n", "v", "e", "n", "i", "d", "o">>

\* getDefaultRulesContent(): the template, cut to the first word of its title
DefaultRulesContent == <<"R", "e", "g", "l", "a", "s">>

\* new OnboardingConfig(guildId)
NewOnboardingConfig(guildId) ==
    [guildId |-> guildId,
     welcomeChannelId |-> Null,
     rulesChannelId |-> Null,
     welcomeMessage |-> DefaultWelcomeMessage,
     rulesContent |-> DefaultRulesContent,
     githubIntegrationEnabled |-> TRUE,
     tutorialEnabled |-> TRUE,
     reminderIntervalHours |-> 24,
     maxReminders |-> 3]

\* OnboardingConfig.fromJSON(data)
ConfigFromJSON(d) == ObjectAssign(NewOnboardingConfig(Prop(d, "guildId")), d)

\* OnboardingConfig toJSON(): the nine canonical properties
ConfigToJSON(c) == [f \in ConfigFields |-> c[f]]

\* update(updates)
ConfigUpdate(c, updates) == ObjectAssign(c, updates)

\* a validate() that returns at the first check that fails
Validate_FirstErrorOnly(c) ==
    LET errors ==
            IF Falsy(c.guildId)
            THEN <<"Guild ID es requerido">>
            ELSE IF c.reminderIntervalHours < 1 \/ c.reminderIntervalHours > 168
            THEN <<"Intervalo de recordatorios debe estar entre 1 y 168 horas">>
            ELSE IF c.maxReminders < 0 \/ c.maxReminders > 10
            THEN <<"Máximo de recordatorios debe estar entre 0 y 10">>
            ELSE IF Falsy(c.welcomeMessage) \/ Len(Trim(c.welcomeMessage)) = 0
            THEN <<"Mensaje de bienvenida no puede estar vacío">>
            ELSE IF Falsy(c.rulesContent) \/ Len(Trim(c.rulesContent)) = 0
            THEN <<"Contenido de reglas no puede estar vacío">>
            ELSE <<>>
    IN [isValid |-> Len(errors) = 0, errors |-> errors]

\* validate(): each check pushes its message
Validate(c) ==
    LET e1 == IF Falsy(c.guildId)
              THEN <<"Guild ID es requerido">>
              ELSE <<>>
        e2 == IF c.reminderIntervalHours < 1 \/ c.reminderIntervalHours > 168
              THEN Append(e1, "Intervalo de recordatorios debe estar entre 1 y 168 horas")
              ELSE e1
        e3 == IF c.maxReminders < 0 \/ c.maxReminders > 10
              THEN Append(e2, "Máximo de recordatorios debe estar entre 0 y 10")
              ELSE e2
        e4 == IF Falsy(c.welcomeMessage) \/ Len(Trim(c.welcomeMessage)) = 0
              THEN Append(e3, "Mensaje de bienvenida no puede estar vacío")
              ELSE e3
        errors == IF Falsy(c.rulesContent) \/ Len(Trim(c.rulesContent)) = 0
                  THEN Append(e4, "Contenido de reglas no puede estar vacío")
                  ELSE e4
    IN [isValid |-> Len(errors) = 0, errors |-> errors]

---------------------------------------------------------------------------
(* An OnboardingConfig object under update and validate *)

\* the updates objects of the settings commands: the bounds of both ranges and
\* their neighbours, blank and padded texts, a guild id taken away, and the
\* updates object of the test of update
ConfigPatches ==
    {[reminderIntervalHours |-> h] : h \in {0, 1, 168, 169}}
    \cup {[maxReminders |-> n] : n \in {0 - 1, 0, 10, 11}}
    \cup {[welcomeMessage |-> w] : w \in {<<>>, <<" ", "\n">>, <<" ", "a", " ">>}}
    \cup {[rulesContent |-> r] : r \in {<<>>, <<"\t", " ">>}}
    \cup {[guildId |-> Null]}
    \cup {[welcomeChannelId |-> <<"newChannel">>,
           githubIntegrationEnabled |-> FALSE,
           maxReminders |-> 5]}

InitConfig ==
    /\ InitManager
    /\ file = NoFile
    /\ IdleRecord
    /\ IdleKeys
    /\ IdleCalls
    /\ config \in {NewOnboardingConfig(G1), NewOnboardingConfig(Null)}
    /\ jsonData = Null
    /\ out = Null

\* config.update(updates)
CallUpdate(updates) ==
    /\ config' = ConfigUpdate(config, updates)
    /\ UNCHANGED <<jsonData, out, mgrVars, recVars, keyVars, asyncVars>>

\* config.validate()
CallValidate ==
    /\ out' = Validate(config)
    /\ UNCHANGED <<config, jsonData, mgrVars, recVars, keyVars, asyncVars>>

NextConfig ==
    \/ \E u \in ConfigPatches : CallUpdate(u)
    \/ CallValidate

SpecConfig == InitConfig /\ [][NextConfig]_vars

---------------------------------------------------------------------------
(* fromJSON followed by toJSON, of both models *)

\* the properties D of object obj
Restrict(obj, D) == [f \in D |-> obj[f]]

\* what a data object may hold beside the canonical properties
ExtraProperties == {<<>>, [nickname |-> <<"kit">>]}

\* data objects in the shape of a UserState: whole, in part, empty, with and
\* without a property that is not canonical
UserData ==
    {ObjectAssign(Restrict(d, D), e) :
        d \in {r \in RecordData : r.onboardingStep \in {"rules", "complete"}},
        D \in {CanonicalFields,
               {"userId", "guildId"},
               {"onboardingStep", "rulesAcknowledged", "remindersSent"},
               {}},
        e \in ExtraProperties}

\* data objects in the shape of an OnboardingConfig, likewise
ConfigData ==
    {ObjectAssign(Restrict(d, D), e) :
        d \in {ConfigUpdate(NewOnboardingConfig(G1), u) : u \in ConfigPatches},
        D \in {ConfigFields, {"guildId", "maxReminders"}, {"welcomeMessage"}},
        e \in ExtraProperties}

InitJSON ==
    /\ InitManager
    /\ file = NoFile
    /\ IdleKeys
    /\ IdleCalls
    /\ state = Null
    /\ steps = <<>>
    /\ config = Null
    /\ jsonData \in UserData \cup ConfigData
    /\ out = Null

\* state = UserState.fromJSON(jsonData)
CallUserFromJSON ==
    /\ state = Null
    /\ config = Null
    /\ state' = FromJSON(jsonData, now)
    /\ UNCHANGED <<steps, config, jsonData, out, mgrVars, keyVars, asyncVars>>

\* state.toJSON()
CallUserToJSON ==
    /\ state # Null
    /\ out' = ToJSON(state)
    /\ UNCHANGED <<config, jsonData, mgrVars, recVars, keyVars, asyncVars>>

\* config = OnboardingConfig.fromJSON(jsonData)
CallConfigFromJSON ==
    /\ state = Null
    /\ config = Null
    /\ config' = ConfigFromJSON(jsonData)
    /\ UNCHANGED <<jsonData, out, mgrVars, recVars, keyVars, asyncVars>>

\* config.toJSON()
CallConfigToJSON ==
    /\ config # Null
    /\ out' = ConfigToJSON(config)
    /\ UNCHANGED <<config, jsonData, mgrVars, recVars, keyVars, asyncVars>>

NextJSON ==
    \/ CallUserFromJSON
    \/ CallUserToJSON
    \/ CallConfigFromJSON
    \/ CallConfigToJSON

SpecJSON == InitJSON /\ [][NextJSON]_vars

---------------------------------------------------------------------------
(* The manager over a file system that can refuse a call *)

\* a call of the manager that rejected with the error the file system raised
Throw(op, userId, guildId, arg, code) ==
    [op |-> op, userId |-> userId, guildId |-> guildId, arg |-> arg, value |-> Null,
     error |-> code]

\* call c rejected
Rejected(c) == "error" \in DOMAIN c

\* the Map after the synchronous part of updateUserState, from Map m
Updated(m, userId, guildId, updates, t) ==
    LET key == GetUserKey(userId, guildId)
        m1 == GetOrCreate(m, userId, guildId, t)
    IN MapSet(m1, key, ObjectAssign(MapGet(m1, key), updates))

\* the Map after the synchronous part of markStepComplete, from Map m
Marked(m, userId, guildId, step, t) ==
    LET key == GetUserKey(userId, guildId)
        m1 == GetOrCreate(m, userId, guildId, t)
    IN MapSet(m1, key, CompleteStep(MapGet(m1, key), step, t))

\* the Map a mutating call c leaves, from Map m, when it reaches saveUserStates
Mutated(c, m, t) ==
    CASE c.op = "updateUserState" -> Updated(m, c.userId, c.guildId, c.arg, t)
      [] c.op = "markStepComplete" -> Marked(m, c.userId, c.guildId, c.arg, t)
      [] c.op = "deleteUserState" -> MapDelete(m, GetUserKey(c.userId, c.guildId))

\* the arguments of a call, before it is made
Args(op, userId, guildId, arg) ==
    [op |-> op, userId |-> userId, guildId |-> guildId, arg |-> arg]

\* the updates objects of the callers: a step with its flag, and a counter with a
\* property that is not canonical
IOPatches ==
    { [onboardingStep |-> "rules", rulesAcknowledged |-> TRUE],
      [remindersSent |-> DefaultMaxReminders, nickname |-> <<"kit">>] }

\* the step arguments of markStepComplete: one with a case, one without
IOSteps == {"rules", "finished"}

\* the mutating calls the callers make
MutatingCalls ==
    {Args("updateUserState", p[1], p[2], u) : p \in Pairs, u \in IOPatches}
    \cup {Args("markStepComplete", p[1], p[2], s) : p \in Pairs, s \in IOSteps}
    \cup {Args("deleteUserState", p[1], p[2], Null) : p \in Pairs}

\* the reading calls the callers make, and initialize() itself
ReadingCalls ==
    {Args("getUserState", p[1], p[2], Null) : p \in Pairs}
    \cup {Args("getGuildUserStates", Null, g, Null) : g \in GuildIds}
    \cup {Args("getUsersNeedingReminders", Null, g, a) : g \in GuildIds, a \in MaxRemindersArgs}
    \cup {Args("initialize", Null, Null, Null)}

\* manager.initialize(), called by the owner of the manager
CallInitialize ==
    /\ initialized' = TRUE
    /\ userStates' = Initialize
    /\ ret' = Call("initialize", Null, Null, Null, Null)
    /\ TrackRead
    /\ UNCHANGED <<file, now, writes, recVars, keyVars, cfgVars, asyncVars>>

\* an initialize() whose catch block has set the flag all the same
InitializeRejects_FlagSet(c) ==
    /\ ~initialized
    /\ initialized' = TRUE
    /\ ret' = Throw(c.op, c.userId, c.guildId, c.arg, "EACCES")
    /\ UNCHANGED <<userStates, file, now, writes, firstInserted, lastInserted,
                   recVars, keyVars, cfgVars, asyncVars>>

\* call c on a manager not yet initialized, when mkdir, readFile or JSON.parse
\* throws: loadUserStates rethrows what is not ENOENT, initialize() rethrows, and
\* the await of the public method rejects before the Map is touched
InitializeRejects(c) ==
    /\ ~initialized
    /\ ret' = Throw(c.op, c.userId, c.guildId, c.arg, "EACCES")
    /\ UNCHANGED <<userStates, initialized, file, now, writes, firstInserted,
                   lastInserted, recVars, keyVars, cfgVars, asyncVars>>

\* a mutating call whose catch block restores the Map it found
SaveRejects_RolledBack(c) ==
    /\ writes < MaxWrites
    /\ initialized' = TRUE
    /\ userStates' = Initialize
    /\ ret' = Throw(c.op, c.userId, c.guildId, c.arg, "EACCES")
    /\ writes' = writes + 1
    /\ TrackRead
    /\ UNCHANGED <<file, now, recVars, keyVars, cfgVars, asyncVars>>

\* mutating call c when writeFile refuses the file: saveUserStates rethrows, the
\* call rejects after its synchronous part has changed the Map
SaveRejects(c) ==
    /\ writes < MaxWrites
    /\ initialized' = TRUE
    /\ userStates' = Mutated(c, Initialize, now)
    /\ ret' = Throw(c.op, c.userId, c.guildId, c.arg, "EACCES")
    /\ writes' = writes + 1
    /\ IF c.op = "deleteUserState"
       THEN TrackDelete(GetUserKey(c.userId, c.guildId))
       ELSE TrackSet(GetUserKey(c.userId, c.guildId))
    /\ UNCHANGED <<file, now, recVars, keyVars, cfgVars, asyncVars>>

NextIO ==
    \/ CallInitialize
    \/ \E p \in Pairs, u \in IOPatches : UpdateUserState(p[1], p[2], u)
    \/ \E p \in Pairs, s \in IOSteps : MarkStepComplete(p[1], p[2], s)
    \/ \E p \in Pairs : DeleteUserState(p[1], p[2])
    \/ \E p \in Pairs : GetUserState(p[1], p[2])
    \/ \E g \in GuildIds : GetGuildUserStates(g)
    \/ \E c \in MutatingCalls \cup ReadingCalls : InitializeRejects(c)
    \/ \E c \in MutatingCalls : SaveRejects(c)

SpecIO == Init /\ [][NextIO]_vars

---------------------------------------------------------------------------
(* The manager under calls that overlap: each call runs from one await to   *)
(* the next without interruption, and between two awaits of a call the      *)
(* continuations of the other calls may run                                 *)

\* calls made in one behaviour
MaxCalls == 2

\* an initialize() that has lost its "if (this.initialized) return"
LoadNeeded_Always(flag) == TRUE

\* initialize(), line 20: the load is skipped when the flag is set
LoadNeeded(flag) == ~flag

\* the calls the event handlers make while others are in flight
AsyncCalls ==
    { Args("initialize", Null, Null, Null),
      Args("getUserState", U1, G1, Null),
      Args("updateUserState", U1, G1, [remindersSent |-> DefaultMaxReminders, nickname |-> <<"kit">>]),
      Args("updateUserState", U2, G1, [onboardingStep |-> "rules", rulesAcknowledged |-> TRUE]),
      Args("markStepComplete", U1, G1, "rules"),
      Args("deleteUserState", U1, G1, Null) }

MutatingOps == {"updateUserState", "markStepComplete", "deleteUserState"}

\* the key call c works on
KeyOf(c) == GetUserKey(c.userId, c.guildId)

\* the identity of the object Map m holds under key k, refs r beside it
RefOf(m, r, k) == r[MapIndex(m, k)]

\* a call is made: it runs up to its first await, which is inside initialize()
\* when the flag is not set (mkdir, then readFile) and on initialize() otherwise
BeginCall(a) ==
    /\ Len(calls) < MaxCalls
    /\ calls' = Append(calls,
            [op |-> a.op, userId |-> a.userId, guildId |-> a.guildId, arg |-> a.arg,
             pc |-> IF LoadNeeded(initialized) THEN "readFile"
                    ELSE IF a.op = "initialize" THEN "done"
                    ELSE "ready",
             read |-> Null,
             snapshot |-> Null,
             value |-> Null,
             obj |-> 0,
             early |-> ~initialized,
             touched |-> FALSE])
    /\ UNCHANGED <<refs, allocated, log, base, mgrVars, recVars, keyVars, cfgVars>>

\* readFile of call i completes with what the file holds
ReadFileDone(i) ==
    /\ calls[i].pc = "readFile"
    /\ calls' = [calls EXCEPT ![i].pc = "loaded", ![i].read = file]
    /\ UNCHANGED <<refs, allocated, log, base, mgrVars, recVars, keyVars, cfgVars>>

\* loadUserStates of call i goes on after its readFile: the Map is cleared and
\* filled with new objects, and initialize() sets the flag
LoadDone(i) ==
    /\ calls[i].pc = "loaded"
    /\ userStates' = LoadUserStates(calls[i].read, now)
    /\ refs' = [j \in 1..Len(userStates') |-> allocated + j]
    /\ allocated' = allocated + Len(userStates')
    /\ initialized' = TRUE
    /\ base' = IF initialized THEN base ELSE userStates'
    /\ calls' = [calls EXCEPT ![i].pc = IF calls[i].op = "initialize" THEN "done" ELSE "ready",
                              ![i].read = Null]
    /\ UNCHANGED <<log, file, now, ret, writes, firstInserted, lastInserted,
                   recVars, keyVars, cfgVars>>

\* mutating call i on key k has run its synchronous part: the calls that had
\* mutated k before have been followed by a mutating call on their key
Touch(cs, i, k) ==
    [j \in 1..Len(cs) |->
        IF /\ j # i
           /\ cs[j].pc \in {"writeFile", "done"}
           /\ cs[j].op \in MutatingOps
           /\ KeyOf(cs[j]) = k
        THEN [cs[j] EXCEPT !.touched = TRUE]
        ELSE cs[j]]

\* mutating call i goes on after "await this.initialize()": it changes the Map
\* and, in saveUserStates, serialises it and hands the text to writeFile
Mutate(i) ==
    LET c == calls[i]
        k == KeyOf(c)
        had == MapHas(userStates, k)
    IN /\ c.pc = "ready"
       /\ c.op \in MutatingOps
       /\ userStates' = Mutated(c, userStates, now)
       /\ refs' = IF c.op = "deleteUserState"
                  THEN IF had
                       THEN [j \in 1..(Len(refs) - 1) |->
                                IF j < MapIndex(userStates, k) THEN refs[j] ELSE refs[j + 1]]
                       ELSE refs
                  ELSE IF had THEN refs ELSE Append(refs, allocated + 1)
       /\ allocated' = IF c.op # "deleteUserState" /\ ~had THEN allocated + 1 ELSE allocated
       /\ log' = Append(log, i)
       /\ calls' = Touch([calls EXCEPT
                            ![i].pc = "writeFile",
                            ![i].snapshot = SaveUserStates(userStates'),
                            ![i].value = IF c.op = "deleteUserState" THEN Null
                                         ELSE MapGet(userStates', k),
                            ![i].obj = IF c.op = "deleteUserState" THEN 0
                                       ELSE RefOf(userStates', refs', k)],
                         i, k)
       /\ UNCHANGED <<base, initialized, file, now, ret, writes, firstInserted,
                      lastInserted, recVars, keyVars, cfgVars>>

\* the object with identity o as the Map holds it; a record no longer in the Map
\* is as it was when the call last saw it
Deref(o, seen) ==
    IF \E j \in 1..Len(refs) : refs[j] = o
    THEN userStates[CHOOSE j \in 1..Len(refs) : refs[j] = o].value
    ELSE seen

\* writeFile of mutating call i completes: the file holds the text of the call,
\* and the call resolves to its record
WriteFileDone(i) ==
    LET c == calls[i]
    IN /\ c.pc = "writeFile"
       /\ file' = c.snapshot
       /\ calls' = [calls EXCEPT
                        ![i].pc = "done",
                        ![i].snapshot = Null,
                        ![i].value = IF c.op = "deleteUserState" THEN Null
                                     ELSE Deref(c.obj, c.value)]
       /\ UNCHANGED <<refs, allocated, log, base, userStates, initialized, now, ret,
                      writes, firstInserted, lastInserted, recVars, keyVars, cfgVars>>

\* getUserState call i goes on after "await this.initialize()" and resolves
Read(i) ==
    LET c == calls[i]
        found == MapHas(userStates, KeyOf(c))
    IN /\ c.pc = "ready"
       /\ c.op = "getUserState"
       /\ calls' = [calls EXCEPT
                        ![i].pc = "done",
                        ![i].obj = IF found THEN RefOf(userStates, refs, KeyOf(c)) ELSE 0,
                        ![i].value = IF found THEN MapGet(userStates, KeyOf(c)) ELSE Null]
       /\ UNCHANGED <<refs, allocated, log, base, mgrVars, recVars, keyVars, cfgVars>>

NextAsync ==
    \/ \E a \in AsyncCalls : BeginCall(a)
    \/ \E i \in 1..Len(calls) : ReadFileDone(i)
    \/ \E i \in 1..Len(calls) : LoadDone(i)
    \/ \E i \in 1..Len(calls) : Mutate(i)
    \/ \E i \in 1..Len(calls) : WriteFileDone(i)
    \/ \E i \in 1..Len(calls) : Read(i)

\* the manager as the bot finds it when its event handlers start to call: just
\* constructed, or constructed and "await manager.initialize()" run to its end
InitAsync ==
    /\ file \in InitFiles
    /\ now = 0
    /\ ret = NoCall
    /\ writes = 0
    /\ firstInserted = <<>>
    /\ lastInserted = <<>>
    /\ IdleRecord
    /\ IdleKeys
    /\ IdleConfig
    /\ initialized \in BOOLEAN
    /\ userStates = IF initialized THEN LoadUserStates(file, now) ELSE <<>>
    /\ refs = [j \in 1..Len(userStates) |-> j]
    /\ allocated = Len(userStates)
    /\ base = userStates
    /\ calls = <<>>
    /\ log = <<>>

SpecAsync == InitAsync /\ [][NextAsync]_vars

---------------------------------------------------------------------------
(* What the claims speak of *)

\* the step of the behaviour is a mutating call of the manager named op
IsCall(op) == writes' = writes + 1 /\ ret'.op = op

\* the record the Map holds for the pair of call c
Stored(m, c) == MapGet(m, GetUserKey(c.userId, c.guildId))

BooleanFields == {"rulesAcknowledged", "githubConnected", "tutorialCompleted"}

NullableFields == {"rulesAcknowledgedAt", "githubUsername", "onboardingCompletedAt"}

\* the default of canonical field f in a record made for (userId, guildId) at t
DefaultOf(f, userId, guildId, t) ==
    CASE f = "userId" -> userId
      [] f = "guildId" -> guildId
      [] f = "onboardingStep" -> "welcome"
      [] f \in BooleanFields -> FALSE
      [] f \in NullableFields -> Null
      [] f = "onboardingStartedAt" -> ToISOString(t)
      [] f = "remindersSent" -> 0

---------------------------------------------------------------------------
(* C1 *)

\* what an updateUserState call leaves under its key, given the Map it found
C1_Patched ==
    LET c == ret'
        k == GetUserKey(c.userId, c.guildId)
        had == MapHas(Initialize, k)
        old == MapGet(Initialize, k)
        new == MapGet(userStates', k)
    IN /\ MapHas(userStates', k)
       /\ c.value = new
       /\ DOMAIN new = (IF had THEN DOMAIN old ELSE CanonicalFields) \cup DOMAIN c.arg
       /\ \A f \in DOMAIN new :
            new[f] = IF f \in DOMAIN c.arg THEN c.arg[f]
                     ELSE IF had THEN old[f]
                     ELSE DefaultOf(f, c.userId, c.guildId, now)

\* the last call was updateUserState with patch p1 and left defaults under p1
C1_AfterFirst ==
    /\ ret.op = "updateUserState"
    /\ DOMAIN ret.value = CanonicalFields \cup DOMAIN ret.arg
    /\ \A f \in CanonicalFields \ (DOMAIN ret.arg \cup {"onboardingStartedAt"}) :
            ret.value[f] = DefaultOf(f, ret.userId, ret.guildId, 0)

\* the record after patch p1 (the last call) and then patch p2 (this call)
C1_Merged ==
    LET p1 == ret.arg
        p2 == ret'.arg
        new == Stored(userStates', ret')
    IN \A f \in CanonicalFields :
            new[f] = IF f \in DOMAIN p2 THEN p2[f]
                     ELSE IF f \in DOMAIN p1 THEN p1[f]
                     ELSE IF f = "onboardingStartedAt" THEN ret.value[f]
                     ELSE DefaultOf(f, ret.userId, ret.guildId, 0)

\* C1: updateUserState on a key with no record leaves the defaults with the patch
\* written on top; on a key with a record it overwrites exactly the fields the patch
\* names; so two calls p1 then p2 leave, per field, p2's value, else p1's, else the
\* default.
C1_UpdateMerges ==
    [][/\ IsCall("updateUserState") => C1_Patched
       /\ (/\ C1_AfterFirst
           /\ IsCall("updateUserState")
           /\ ret'.userId = ret.userId
           /\ ret'.guildId = ret.guildId) => C1_Merged]_vars

\* C1 witness: a second patch on a created record; the step of the first survives
C1_Witness ==
    /\ writes = 2
    /\ ret.op = "updateUserState"
    /\ DOMAIN ret.arg = {"githubConnected", "githubUsername"}
    /\ ret.value.onboardingStep = "rules"
    /\ ret.value.rulesAcknowledged
    /\ ret.value.githubConnected
    /\ ret.value.remindersSent = 0
    /\ Stored(userStates, ret) = ret.value

---------------------------------------------------------------------------
(* C3 *)

\* C3: the onboardingStep of every record of the store is one of welcome, rules,
\* github, tutorial, complete, whatever calls were made.
C3_StepEnumerated ==
    \A i \in 1..Len(userStates) : userStates[i].value.onboardingStep \in OnboardingSteps

---------------------------------------------------------------------------
(* C8 *)

\* the keys of the pairs the callers use
CallKeys == {GetUserKey(p[1], p[2]) : p \in Pairs}

\* a deleteUserState call removes its key and nothing else, whether or not the
\* key had a record, and resolves
C8_Deleted ==
    LET k == GetUserKey(ret'.userId, ret'.guildId)
    IN /\ ~MapHas(userStates', k)
       /\ \A k2 \in (MapKeys(Initialize) \cup MapKeys(userStates')) \ {k} :
            /\ MapHas(Initialize, k2)
            /\ MapHas(userStates', k2)
            /\ MapGet(userStates', k2) = MapGet(Initialize, k2)
       /\ ret'.value = Null

\* a key without a record stays without one over every step that is not an
\* updateUserState, setOnboardingStep or markStepComplete for that key
C8_StaysAbsent ==
    \A k \in CallKeys :
        (/\ initialized
         /\ ~MapHas(userStates, k)
         /\ ~(/\ IsCall("updateUserState") \/ IsCall("markStepComplete")
              /\ GetUserKey(ret'.userId, ret'.guildId) = k))
        => ~MapHas(userStates', k)

\* getUserState resolves to null exactly for a key without a record
C8_GetNull ==
    ret.op = "getUserState" =>
        (ret.value = Null <=> ~MapHas(userStates, GetUserKey(ret.userId, ret.guildId)))

\* C8: after deleteUserState(u, g), getUserState(u, g) returns null until a later
\* updateUserState, setOnboardingStep or markStepComplete for the same key;
\* deleteUserState on a key with no record raises no error and leaves all other
\* records unchanged.
C8_DeleteThenAbsent ==
    /\ []C8_GetNull
    /\ [][/\ IsCall("deleteUserState") => C8_Deleted
          /\ C8_StaysAbsent]_vars

\* C8 witness: getUserState returned null for a key that was in the Map and was
\* deleted, while another record is still there
C8_Witness ==
    /\ ret.op = "getUserState"
    /\ ret.value = Null
    /\ writes > 0
    /\ \E i \in 1..Len(firstInserted) : firstInserted[i] = GetUserKey(ret.userId, ret.guildId)
    /\ userStates # <<>>

---------------------------------------------------------------------------
(* C9 *)

\* the records of guild g under the keys of h, in the order of h
C9_InOrderOf(h, g) ==
    LET ks == SelectSeq(h, LAMBDA k : /\ MapHas(userStates, k)
                                      /\ MapGet(userStates, k).guildId = g)
    IN [i \in 1..Len(ks) |-> MapGet(userStates, ks[i])]

\* C9 as claimed: getGuildUserStates(g) returns exactly the records of guild g in
\* the order in which their keys were first inserted into the Map.
C9_FirstInsertionOrder ==
    ret.op = "getGuildUserStates" => ret.value = C9_InOrderOf(firstInserted, ret.guildId)

\* C9 amended: getGuildUserStates(g) returns exactly the records of guild g, each
\* once, in the order in which their keys were last inserted into the Map: a key
\* deleted and set again goes to the end, a key set while present keeps its place.
C9_LastInsertionOrder ==
    /\ \A i \in 1..Len(userStates) :
            Cardinality({j \in 1..Len(lastInserted) : lastInserted[j] = userStates[i].key}) = 1
    /\ ret.op = "getGuildUserStates" => ret.value = C9_InOrderOf(lastInserted, ret.guildId)

\* C9 witness: two records of the guild returned, a record of another guild left
\* out, and the first returned was first inserted after the second
C9_Witness ==
    /\ ret.op = "getGuildUserStates"
    /\ Len(ret.value) = 2
    /\ Len(userStates) = 3
    /\ \E i, j \in 1..Len(firstInserted) :
            /\ i > j
            /\ firstInserted[i] = GetUserKey(ret.value[1].userId, ret.value[1].guildId)
            /\ firstInserted[j] = GetUserKey(ret.value[2].userId, ret.value[2].guildId)

---------------------------------------------------------------------------
(* C2, C4, C5, C6: completeStep on a UserState *)

\* the last completeStep call on state: its argument and the record it found
LastStep == steps[Len(steps)]

\* the arguments of the completeStep calls made on state
StepsTaken == [i \in 1..Len(steps) |-> steps[i].arg]

\* the record the completeStep calls started from
StartRecord == IF steps = <<>> THEN state ELSE steps[1].before

\* record s holds the defaults of the constructor
IsDefaultRecord(s) ==
    /\ DOMAIN s = CanonicalFields
    /\ \A f \in CanonicalFields \ {"onboardingStartedAt"} :
            s[f] = DefaultOf(f, s.userId, s.guildId, 0)
    /\ s.onboardingStartedAt # Null

\* record s holds the defaults of the constructor for (userId, guildId)
IsDefaultRecordAt(s, userId, guildId) ==
    /\ DOMAIN s = CanonicalFields
    /\ \A f \in CanonicalFields \ {"onboardingStartedAt"} :
            s[f] = DefaultOf(f, userId, guildId, 0)

\* the position of an onboarding step in the order welcome < ... < complete
Pos(step) == CHOOSE i \in 1..Len(StepOrder) : StepOrder[i] = step

\* the steps completeStep has a case for
Completable == {"rules", "github", "tutorial"}

\* C2: from a default record completeStep("rules") sets rulesAcknowledged, a
\* timestamp and step github; then completeStep("github") sets step tutorial; then
\* completeStep("tutorial") sets tutorialCompleted, a completion timestamp and
\* step complete, and isComplete() is true then and false in every earlier state.
C2_Chain ==
    IsDefaultRecord(StartRecord) =>
        /\ StepsTaken = <<>> => ~IsComplete(state)
        /\ StepsTaken = <<"rules">> =>
            /\ state.rulesAcknowledged
            /\ state.rulesAcknowledgedAt # Null
            /\ state.onboardingStep = "github"
            /\ ~IsComplete(state)
        /\ StepsTaken = <<"rules", "github">> =>
            /\ state.onboardingStep = "tutorial"
            /\ ~IsComplete(state)
        /\ StepsTaken = <<"rules", "github", "tutorial">> =>
            /\ state.tutorialCompleted
            /\ state.onboardingCompletedAt # Null
            /\ state.onboardingStep = "complete"
            /\ IsComplete(state)

\* C2 witness: the whole chain was run on a default record
C2_Witness ==
    /\ IsDefaultRecord(StartRecord)
    /\ StepsTaken = <<"rules", "github", "tutorial">>
    /\ IsComplete(state)

\* C4 as claimed: completeStep never moves onboardingStep to an earlier position
\* than the one it held before the call.
C4_Monotonic ==
    steps # <<>> => Pos(state.onboardingStep) >= Pos(LastStep.before.onboardingStep)

\* C4 amended: completeStep(s) moves onboardingStep to an earlier position exactly
\* when s is rules, github or tutorial and lies two or more positions before the
\* step the record held; for every other record and argument it does not.
C4_BackOnlyFromBehind ==
    steps # <<>> =>
        (Pos(state.onboardingStep) < Pos(LastStep.before.onboardingStep)
            <=> /\ LastStep.arg \in Completable
                /\ Pos(LastStep.arg) + 1 < Pos(LastStep.before.onboardingStep))

\* C4 witness: completeStep("github") on a record at tutorial, which stays there
C4_Witness ==
    /\ steps # <<>>
    /\ LastStep.arg = "github"
    /\ LastStep.before.onboardingStep = "tutorial"
    /\ state.onboardingStep = "tutorial"

\* the fields completeStep(step) writes, by the transition table
C5_Written(step) ==
    CASE step = "rules" -> {"rulesAcknowledged", "rulesAcknowledgedAt", "onboardingStep"}
      [] step = "github" -> {"onboardingStep"}
      [] step = "tutorial" -> {"tutorialCompleted", "onboardingCompletedAt", "onboardingStep"}
      [] OTHER -> {}

\* C5: completeStep has no guard on the current step: for rules, github and
\* tutorial the fields written and the resulting step are the same whatever step
\* the record held; completeStep("tutorial") at welcome yields complete with
\* rulesAcknowledged still false.
C5_NoGuard ==
    (steps # <<>> /\ LastStep.arg \in Completable) =>
        LET old == LastStep.before
            arg == LastStep.arg
        IN /\ state.onboardingStep = StepOrder[Pos(arg) + 1]
           /\ \A f \in DOMAIN old \ C5_Written(arg) : state[f] = old[f]
           /\ arg = "rules" => state.rulesAcknowledged /\ state.rulesAcknowledgedAt # Null
           /\ arg = "tutorial" => state.tutorialCompleted /\ state.onboardingCompletedAt # Null
           /\ (arg = "tutorial" /\ old.onboardingStep = "welcome" /\ ~old.rulesAcknowledged) =>
                (state.onboardingStep = "complete" /\ ~state.rulesAcknowledged)

\* C5 witness: completeStep("tutorial") on a record at welcome
C5_Witness ==
    /\ steps # <<>>
    /\ LastStep.arg = "tutorial"
    /\ LastStep.before.onboardingStep = "welcome"
    /\ ~LastStep.before.rulesAcknowledged
    /\ state.onboardingStep = "complete"
    /\ ~state.rulesAcknowledged

\* C6: completeStep(s) with s other than rules, github or tutorial leaves every
\* field of the record unchanged.
C6_OtherStepsNoOp ==
    (steps # <<>> /\ LastStep.arg \notin Completable) => state = LastStep.before

\* C6 witness: completeStep("welcome") was called on a record at welcome
C6_Witness ==
    /\ steps # <<>>
    /\ LastStep.arg = "welcome"
    /\ LastStep.before.onboardingStep = "welcome"
    /\ state = LastStep.before

---------------------------------------------------------------------------
(* C7 *)

\* C7: two different (userId, guildId) pairs of identifier strings never get the
\* same key from getUserKey.
C7_KeysUnique ==
    (keys # <<>> /\ ids[1] # ids[2]) => keys[1] # keys[2]

---------------------------------------------------------------------------
(* C10 *)

\* the step of the behaviour is a getUsersNeedingReminders call
C10_IsCall ==
    /\ ret'.op = "getUsersNeedingReminders"
    /\ now' = now
    /\ writes' = writes

\* the cap a getUsersNeedingReminders call c works with: 3 when none is passed
C10_Cap(c) == IF c.arg = <<>> THEN 3 ELSE c.arg[1]

\* record s is unacknowledged, in guild g, under the cap, and started at least
\* 24 hours (86,400,000 ms) before t
C10_Eligible(s, g, cap, t) ==
    /\ s.guildId = g
    /\ s.rulesAcknowledged = FALSE
    /\ s.remindersSent < cap
    /\ t - s.onboardingStartedAt[1] >= 86400000

\* the eligible records of Map m in the order of m
C10_Expected(m, g, cap, t) ==
    LET hits == SelectSeq(m, LAMBDA e : C10_Eligible(e.value, g, cap, t))
    IN [i \in 1..Len(hits) |-> hits[i].value]

\* C10: getUsersNeedingReminders(g, max) returns exactly the records of guild g
\* with rulesAcknowledged false, remindersSent < max and at least 24 hours since
\* onboardingStartedAt, in Map order; max is 3 when not passed.
C10_ReminderEligibility ==
    [][C10_IsCall =>
        ret'.value = C10_Expected(userStates', ret'.guildId, C10_Cap(ret'), now)]_vars

\* C10 witness: a call returned a record started exactly 24 hours before, and left
\* out a record of the guild, as old and unacknowledged, whose remindersSent is the cap
C10_Witness ==
    /\ ret.op = "getUsersNeedingReminders"
    /\ \E i \in 1..Len(ret.value) :
            now - ret.value[i].onboardingStartedAt[1] = 86400000
    /\ \E j \in 1..Len(userStates) :
            /\ userStates[j].value.guildId = ret.guildId
            /\ ~userStates[j].value.rulesAcknowledged
            /\ now - userStates[j].value.onboardingStartedAt[1] = 86400000
            /\ userStates[j].value.remindersSent = C10_Cap(ret)
            /\ \A i \in 1..Len(ret.value) : ret.value[i] # userStates[j].value

---------------------------------------------------------------------------
(* C11, C12, C13: initialize() and the failures of the file system *)

\* what a manager made over file f would hold once loaded
AsLoaded(f) == LoadUserStates(f, now)

\* the file a successful saveUserStates would leave for Map m
Serialised(m) == SaveUserStates(m)

\* C11: once initialized is true, an initialize() call resolves without reading
\* the file and leaves the Map as it was, records created or changed since the
\* first load included, whatever the file holds by then.
C11_InitializeIdempotent ==
    [][(initialized /\ ret'.op = "initialize") =>
            /\ ~Rejected(ret')
            /\ initialized'
            /\ userStates' = userStates
            /\ lastInserted' = lastInserted
            /\ file' = file]_vars

\* C11 witness: initialize() was called after mutating calls, on a Map that is
\* not what loading the file would give
C11_Witness ==
    /\ ret.op = "initialize"
    /\ ~Rejected(ret)
    /\ initialized
    /\ writes > 0
    /\ userStates # <<>>
    /\ userStates # AsLoaded(file)

\* the step is a call that rejected inside initialize()
C12_LoadRejected == ~initialized /\ Rejected(ret') /\ writes' = writes

\* the step is a call that resolved, made right after a call that initialize()
\* made reject
C12_NextResolved == ~initialized /\ Rejected(ret) /\ ~Rejected(ret') /\ ret' # ret

\* C12: initialize() with no file succeeds with an empty Map and initialized =
\* true; when mkdir, the read or the parse fails otherwise, the call that ran
\* initialize() rejects, initialized stays false, and the next call loads the
\* file again.
C12_LoadFailurePropagates ==
    [][/\ (~initialized /\ ~file.exists /\ ret'.op = "initialize" /\ ~Rejected(ret')) =>
            (initialized' /\ userStates' = <<>>)
       /\ C12_LoadRejected =>
            (~initialized' /\ userStates' = userStates /\ file' = file)
       /\ C12_NextResolved =>
            /\ initialized'
            /\ ret'.op \in {"initialize", "getUserState", "getGuildUserStates"} =>
                    userStates' = AsLoaded(file)
            /\ ret'.op \in {"updateUserState", "markStepComplete", "deleteUserState"} =>
                    \A k \in MapKeys(AsLoaded(file)) \ {GetUserKey(ret'.userId, ret'.guildId)} :
                        /\ MapHas(userStates', k)
                        /\ MapGet(userStates', k) = MapGet(AsLoaded(file), k)]_vars

\* C12 witness: an updateUserState call rejected inside initialize(), over a file
\* that holds records; the manager is still not initialized and its Map empty
C12_Witness ==
    /\ Rejected(ret)
    /\ ret.op = "updateUserState"
    /\ writes = 0
    /\ ~initialized
    /\ file.exists
    /\ userStates = <<>>

\* the step is a mutating call that rejected inside saveUserStates
C13_SaveRejected == Rejected(ret') /\ writes' = writes + 1

\* the mutation of the rejected call is in the Map
C13_Applied ==
    LET c == ret'
        k == GetUserKey(c.userId, c.guildId)
        had == MapHas(Initialize, k)
        new == MapGet(userStates', k)
    IN /\ c.op = "updateUserState" =>
            /\ MapHas(userStates', k)
            /\ \A f \in DOMAIN c.arg : new[f] = c.arg[f]
       /\ c.op = "markStepComplete" =>
            /\ MapHas(userStates', k)
            /\ c.arg = "rules" => (new.rulesAcknowledged /\ new.onboardingStep = "github")
            /\ (c.arg = "finished" /\ had) => new = MapGet(Initialize, k)
            /\ (c.arg = "finished" /\ ~had) => IsDefaultRecordAt(new, c.userId, c.guildId)
       /\ c.op = "deleteUserState" => ~MapHas(userStates', k)
       /\ \A k2 \in MapKeys(Initialize) \ {k} :
            MapHas(userStates', k2) /\ MapGet(userStates', k2) = MapGet(Initialize, k2)

\* the call changed what the Map serialises to
C13_Changed == Serialised(userStates') # Serialised(Initialize)

---------------------------------------------------------------------------
(* C14 *)

\* the keys of Map m in the order of m
KeysInOrder(m) == [i \in 1..Len(m) |-> m[i].key]

\* C14: after mutating calls that each resolved, one after the other, the file
\* holds one entry per key of the Map and no other, and a new manager initialised
\* from it (at a later instant) holds for every key a record with exactly the
\* eleven canonical fields, each equal to that of the record in the Map.
C14_RoundTrip ==
    writes > 0 =>
        /\ file.exists
        /\ FileKeys(file) = KeysInOrder(userStates)
        /\ Cardinality(MapKeys(userStates)) = Len(file.entries)
        /\ LET reloaded == LoadUserStates(file, now + 1)
           IN \A k \in MapKeys(userStates) :
                /\ MapHas(reloaded, k)
                /\ DOMAIN MapGet(reloaded, k) = CanonicalFields
                /\ Cardinality(CanonicalFields) = 11
                /\ \A f \in CanonicalFields :
                        MapGet(reloaded, k)[f] = MapGet(userStates, k)[f]

\* C14 witness: two records in the Map, one of them with a property that is not
\* canonical and a counter that is not the default
C14_Witness ==
    /\ writes = 2
    /\ Len(userStates) >= 2
    /\ \E i \in 1..Len(userStates) :
            /\ "nickname" \in DOMAIN userStates[i].value
            /\ userStates[i].value.remindersSent = DefaultMaxReminders
            /\ "nickname" \notin DOMAIN MapGet(LoadUserStates(file, now + 1), userStates[i].key)

---------------------------------------------------------------------------
(* C18 *)

\* the record markStepComplete starts from: the one the Map held for the key, or
\* the defaults
C18_Base ==
    LET k == GetUserKey(ret'.userId, ret'.guildId)
    IN IF MapHas(Initialize, k)
       THEN MapGet(Initialize, k)
       ELSE [f \in CanonicalFields |-> DefaultOf(f, ret'.userId, ret'.guildId, now)]

\* the file holds the whole Map, each record as its canonical fields
C18_WholeMapWritten ==
    /\ file'.exists
    /\ FileKeys(file') = KeysInOrder(userStates')
    /\ \A i \in 1..Len(userStates') :
            /\ DOMAIN file'.entries[i].value = CanonicalFields
            /\ \A f \in CanonicalFields :
                    file'.entries[i].value[f] = userStates'[i].value[f]

\* C18: markStepComplete(u, g, s) on a key with no record inserts a default
\* record and applies completeStep(s) to it, so a record exists afterwards for
\* every s; on a key with a record it applies completeStep(s) to that record;
\* then the whole Map is written and the record returned is the one stored.
C18_MarkCreatesThenCompletes ==
    [][IsCall("markStepComplete") =>
        LET c == ret'
            k == GetUserKey(c.userId, c.guildId)
            new == MapGet(userStates', k)
        IN /\ MapHas(userStates', k)
           /\ c.value = new
           /\ c.arg \notin Completable => new = C18_Base
           /\ c.arg \in Completable =>
                /\ new.onboardingStep = StepOrder[Pos(c.arg) + 1]
                /\ DOMAIN new = DOMAIN C18_Base
                /\ \A f \in DOMAIN new \ C5_Written(c.arg) : new[f] = C18_Base[f]
                /\ c.arg = "rules" =>
                        (new.rulesAcknowledged /\ new.rulesAcknowledgedAt = ToISOString(now))
                /\ c.arg = "tutorial" =>
                        (new.tutorialCompleted /\ new.onboardingCompletedAt = ToISOString(now))
           /\ \A k2 \in MapKeys(Initialize) \ {k} :
                MapHas(userStates', k2) /\ MapGet(userStates', k2) = MapGet(Initialize, k2)
           /\ C18_WholeMapWritten]_vars

\* C18 witness: markStepComplete with a step completeStep ignores, on a manager
\* with no record at all, left a default record in the Map and in the file
C18_Witness ==
    /\ ret.op = "markStepComplete"
    /\ ret.arg = "finished"
    /\ writes = 1
    /\ Len(userStates) = 1
    /\ IsDefaultRecordAt(ret.value, ret.userId, ret.guildId)
    /\ Stored(userStates, ret) = ret.value
    /\ Len(file.entries) = 1

---------------------------------------------------------------------------
(* C19 *)

\* the step is a call of one of the three reading methods
C19_IsRead ==
    /\ ret'.op \in {"getUserState", "getGuildUserStates", "getUsersNeedingReminders"}
    /\ writes' = writes
    /\ now' = now

\* C19: getUserState, getGuildUserStates and getUsersNeedingReminders on an
\* initialised manager leave the keys, every field of every record and the file
\* unchanged; getUserState on a key with no record returns null and creates none.
C19_ReadsChangeNothing ==
    [][(initialized /\ C19_IsRead) =>
            /\ userStates' = userStates
            /\ lastInserted' = lastInserted
            /\ file' = file
            /\ (/\ ret'.op = "getUserState"
                /\ ~MapHas(userStates, GetUserKey(ret'.userId, ret'.guildId))) =>
                    /\ ret'.value = Null
                    /\ ~MapHas(userStates', GetUserKey(ret'.userId, ret'.guildId))]_vars

\* C19 witness: getUsersNeedingReminders returned a record whose remindersSent a
\* caller had set, and the record in the Map still holds that count
C19_Witness ==
    /\ ret.op = "getUsersNeedingReminders"
    /\ initialized
    /\ writes > 0
    /\ \E i \in 1..Len(ret.value) :
            /\ ret.value[i].remindersSent = DefaultMaxReminders - 1
            /\ MapGet(userStates, GetUserKey(ret.value[i].userId, ret.value[i].guildId))
                    = ret.value[i]

---------------------------------------------------------------------------
(* C15 *)

\* the canonical fields of the model whose toJSON() returned out
C15_Canonical == IF state # Null THEN CanonicalFields ELSE ConfigFields

\* C15: for a data object x, fromJSON(x).toJSON() holds exactly the canonical
\* fields of the model, each equal to the value of x when x has the field, and
\* none of the other fields of x; for UserState and for OnboardingConfig.
C15_JSONRoundTrip ==
    out # Null =>
        /\ DOMAIN out = C15_Canonical
        /\ \A f \in C15_Canonical \cap DOMAIN jsonData : out[f] = jsonData[f]
        /\ \A f \in DOMAIN jsonData \ C15_Canonical : f \notin DOMAIN out

\* C15 witness: a UserState made from a partial data object with a property that
\* is not canonical; the object holds the property, toJSON() does not
C15_Witness ==
    /\ out # Null
    /\ state # Null
    /\ DOMAIN jsonData = {"onboardingStep", "rulesAcknowledged", "remindersSent", "nickname"}
    /\ jsonData.onboardingStep = "complete"
    /\ "nickname" \in DOMAIN state
    /\ "nickname" \notin DOMAIN out
    /\ out.onboardingStep = "complete"

---------------------------------------------------------------------------
(* C16 *)

\* text has a character that is not white space
C16_NonBlank(text) == \E i \in 1..Len(text) : text[i] \notin {" ", "\t", "\n"}

\* the five checks of validate() in their order: TRUE where configuration c fails
C16_Failed(c) ==
    << c.guildId = <<>>,
       ~(c.reminderIntervalHours \in 1..168),
       ~(c.maxReminders \in 0..10),
       ~C16_NonBlank(c.welcomeMessage),
       ~C16_NonBlank(c.rulesContent) >>

C16_Messages ==
    << "Guild ID es requerido",
       "Intervalo de recordatorios debe estar entre 1 y 168 horas",
       "Máximo de recordatorios debe estar entre 0 y 10",
       "Mensaje de bienvenida no puede estar vacío",
       "Contenido de reglas no puede estar vacío" >>

\* the messages of the failed checks, in the order of the checks
C16_Expected(c) ==
    LET failed == SelectSeq(<<1, 2, 3, 4, 5>>, LAMBDA i : C16_Failed(c)[i])
    IN [j \in 1..Len(failed) |-> C16_Messages[failed[j]]]

\* C16: validate() returns isValid = true exactly when guildId is non-empty,
\* reminderIntervalHours is in [1, 168], maxReminders is in [0, 10] and both texts
\* are non-blank after trimming; errors holds one message per failed check in the
\* order of the checks, and isValid is true iff errors is empty.
C16_ValidateExact ==
    [][out' # out =>
        /\ out'.errors = C16_Expected(config)
        /\ out'.isValid <=> (\A i \in 1..5 : ~C16_Failed(config)[i])
        /\ out'.isValid <=> out'.errors = <<>>]_vars

\* C16 witness: validate() on a configuration out of the interval range by one and
\* with a welcome message of white space returned those two messages, in order
C16_Witness ==
    /\ out # Null
    /\ config.reminderIntervalHours = 169
    /\ config.welcomeMessage = <<" ", "\n">>
    /\ config.guildId # <<>>
    /\ ~out.isValid
    /\ out.errors = <<C16_Messages[2], C16_Messages[4]>>

---------------------------------------------------------------------------
(* C17, C20: calls that overlap *)

\* every call made has resolved
AllResolved == \A i \in 1..Len(calls) : calls[i].pc = "done"

RECURSIVE Replay(_, _)
\* Map m after the mutations of the calls of l, applied one at a time in order
Replay(m, l) ==
    IF l = <<>> THEN m ELSE Replay(Mutated(calls[Head(l)], m, now), Tail(l))

\* no two initialize() raced: at most one call was made before the flag was set
C17_NoRacingInitialize == Cardinality({i \in 1..Len(calls) : calls[i].early}) <= 1

\* C17: when every call starts after an initialize() has completed, then for every
\* interleaving of the mutating calls the Map, once all have resolved, is the Map
\* that initialize() loaded with their mutations applied one at a time in the
\* order the calls performed them, none missing.
C17_NoLostUpdate ==
    (AllResolved /\ C17_NoRacingInitialize) =>
        /\ userStates = Replay(base, log)
        /\ \A i \in 1..Len(calls) :
                calls[i].op \in MutatingOps =>
                    Cardinality({j \in 1..Len(log) : log[j] = i}) = 1

\* C17 witness: two mutating calls on one key, both made on an initialised
\* manager, overlapped: the second made was the first to mutate, and both resolved
C17_Witness ==
    /\ AllResolved
    /\ Len(calls) = 2
    /\ ~calls[1].early
    /\ ~calls[2].early
    /\ log = <<2, 1>>
    /\ calls[1].op = "markStepComplete"
    /\ calls[2].op = "updateUserState"
    /\ KeyOf(calls[1]) = KeyOf(calls[2])
    /\ MapGet(userStates, KeyOf(calls[1])).rulesAcknowledged
    /\ MapGet(userStates, KeyOf(calls[1])).remindersSent = DefaultMaxReminders

\* C20: once updateUserState or markStepComplete has resolved, the Map holds
\* under the key of the call the very record the call returned, with its changes,
\* until a later mutating call on the same key; also when the call overlapped with
\* an initialize() of another caller whose load completes afterwards.
C20_ReadYourWrites ==
    \A i \in 1..Len(calls) :
        (/\ calls[i].pc = "done"
         /\ calls[i].op \in {"updateUserState", "markStepComplete"}
         /\ ~calls[i].touched) =>
            /\ MapHas(userStates, KeyOf(calls[i]))
            /\ RefOf(userStates, refs, KeyOf(calls[i])) = calls[i].obj
            /\ MapGet(userStates, KeyOf(calls[i])) = calls[i].value

---------------------------------------------------------------------------
(* C21: the file once overlapping mutating calls have all resolved *)

\* every call was made on an initialised manager and at least one has mutated
C21_InitialisedCallers ==
    /\ log # <<>>
    /\ \A i \in 1..Len(calls) : ~calls[i].early

\* C21: for every interleaving of overlapping mutating calls on an initialised
\* manager, no write failing, once all calls have resolved the file holds the
\* serialisation of the Map as it then is.
C21_DiskAgreesAtQuiescence ==
    (AllResolved /\ C21_InitialisedCallers) => file = SaveUserStates(userStates)

---------------------------------------------------------------------------
(* C22: keys and the fields they are made of *)

\* the entries of Map m whose key was made with guild g
C22_CreatedWith(m, g) ==
    SelectSeq(m, LAMBDA e : \E u \in UserIds : e.key = GetUserKey(u, g))

\* C22: in every state reached by public calls with arbitrary updates objects,
\* each record is stored under getUserKey(record.userId, record.guildId), and
\* getGuildUserStates(g) returns exactly the records created with guild g.
C22_KeyMatchesFields ==
    /\ \A i \in 1..Len(userStates) :
            userStates[i].key =
                GetUserKey(userStates[i].value.userId, userStates[i].value.guildId)
    /\ ret.op = "getGuildUserStates" =>
            ret.value = [i \in 1..Len(C22_CreatedWith(userStates, ret.guildId)) |->
                            C22_CreatedWith(userStates, ret.guildId)[i].value]

---------------------------------------------------------------------------
(* C23: finished users and reminders *)

\* C23: in every state reached from an empty store by markStepComplete calls
\* alone, getUsersNeedingReminders returns no record whose isComplete() is true,
\* for any guild, cap and elapsed time.
C23_CompleteNeverReminded ==
    ret.op = "getUsersNeedingReminders" =>
        \A i \in 1..Len(ret.value) : ~IsComplete(ret.value[i])

---------------------------------------------------------------------------
(* C24: what completeStep keeps true of a record that started from the defaults *)

\* C24: in every state reached from a default record by completeStep calls with
\* any arguments, rulesAcknowledged is true iff rulesAcknowledgedAt is non-null,
\* tutorialCompleted is true iff onboardingCompletedAt is non-null, onboardingStep
\* complete implies tutorialCompleted, neither flag goes back to false, and
\* onboardingStep is never rules.
C24_RecordInvariants ==
    IsDefaultRecord(StartRecord) =>
        /\ state.rulesAcknowledged <=> state.rulesAcknowledgedAt # Null
        /\ state.tutorialCompleted <=> state.onboardingCompletedAt # Null
        /\ IsComplete(state) => state.tutorialCompleted
        /\ steps # <<>> =>
                /\ LastStep.before.rulesAcknowledged => state.rulesAcknowledged
                /\ LastStep.before.tutorialCompleted => state.tutorialCompleted
        /\ state.onboardingStep # "rules"

\* C24 witness: a default record was completed out of order, tutorial first, then
\* an unknown step, then rules: both flags and both timestamps are set and the
\* record has left complete
C24_Witness ==
    /\ IsDefaultRecord(StartRecord)
    /\ StepsTaken = <<"tutorial", "finished", "rules">>
    /\ state.rulesAcknowledged
    /\ state.rulesAcknowledgedAt # Null
    /\ state.tutorialCompleted
    /\ state.onboardingCompletedAt # Null
    /\ state.onboardingStep = "github"

====
